---- MODULE Spec2Model ----
(***************************************************************************)
(* A model of the vitree tree model and its controller:                    *)
(*   node.rs     TreeNode (children, flags, children_len, build, insert,   *)
(*               flatten, find_by_index)                                   *)
(*   iter.rs     TreeNodeIterator, TreeCursor                              *)
(*   dynamic.rs  DynamicTree (projection, expand state machine,            *)
(*               subscribers, pending expansions)                          *)
(*   view.rs     TreeView (visible range, rendered map, pool)              *)
(* Nodes live in an arena of ids; 0 is the root.  The ordered IndexMap of  *)
(* a node's children and the controller's projection are sequences of node *)
(* ids whose keys are read from the node data.                             *)
(***************************************************************************)
EXTENDS Integers, Sequences, FiniteSets, Bags, TLC

\* ---------------------------------------------------------------- bounds
MaxNodes == 4       \* non-root nodes that can exist
TreeNodes == 3      \* non-root nodes of a tree built before it is used
InitNodes == 1      \* non-root nodes of the tree handed to DynamicTree::new
PairNodes == 2      \* the same, where two results are pending together
MaxKids == 2        \* children delivered by one pending result
MaxKeys == 2        \* keys a caller chooses from for a new node
MaxPending == 2     \* pending results in flight
MaxSubs == 1        \* subscribers
MaxWatchers == 2    \* subscribers, where the notifications are examined

\* ------------------------------------------------------------- constants
Root == 0
Nil == 0 - 1
NodeIds == 0 .. MaxNodes
Subs == 1 .. MaxSubs
ROOT_KEY == MaxNodes + 1

VARIABLES
    alloc,          \* number of non-root nodes created so far (ids 1..alloc)
    parent,         \* TreeNode.parent (Weak); the root points at itself
    data,           \* TreeNodeInner.data: [key, expandable]
    flags,          \* TreeNodeInner.flags
    children_len,   \* TreeNodeInner.children_len
    children,       \* TreeNodeInner.children, in IndexMap order
    flat,           \* DynamicTree.flat, in IndexMap order
    ctrlAlive,      \* the DynamicTree has not been dropped
    subscribers,    \* DynamicTree.subscribers (Weak references, in order)
    subAlive,       \* subscribers whose Rc is still held by their owner
    pending,        \* spawned expansion tasks, a bag of [node, flags captured]
    iter,           \* the TreeNodeIterator made by slice, and what it returned
    view,           \* TreeView.state (TreeState)
    last            \* what the last operation did (history)

vars == <<alloc, parent, data, flags, children_len, children, flat,
          ctrlAlive, subscribers, subAlive, pending, iter, view, last>>

\* No iterator has been made: slice has not been called.
NoIter == [made |-> FALSE, start |-> 0, stack |-> <<>>, out |-> <<>>,
           done |-> FALSE]

\* The TreeState before TreeView::render: nothing rendered, nothing pooled,
\* size (0, 0), offset 0.  rendered is the map as a set of [key, id], id
\* naming the RenderedItem; created counts the RenderedItem values made and
\* rows lists the indices the last update asked item() for; peak is the
\* largest visible_count an update has used (all three history).
NoView == [count |-> 0, rendered |-> {}, pool |-> <<>>, offset |-> 0,
           height |-> 0, created |-> 0, rows |-> <<>>, peak |-> 0]

\* ------------------------------------------------------- sequence helpers
Range(s) == {s[i] : i \in 1 .. Len(s)}

RECURSIVE SeqSum(_)
SeqSum(s) == IF s = <<>> THEN 0 ELSE Head(s) + SeqSum(Tail(s))

\* --------------------------------------------------------------- node.rs
KeyOf(n, d) == d[n].key

Expandable(n, d) == d[n].expandable

is_root(n, fl) == "ROOT" \in fl[n]

\* IndexMap::insert: a new key is appended, an existing key keeps its place
\* and gets the new value.
MapInsert(list, n, d) ==
    IF \E i \in 1 .. Len(list) : KeyOf(list[i], d) = KeyOf(n, d)
    THEN [i \in 1 .. Len(list) |->
            IF KeyOf(list[i], d) = KeyOf(n, d) THEN n ELSE list[i]]
    ELSE Append(list, n)

\* IndexMap::extend
RECURSIVE MapExtend(_, _, _)
MapExtend(list, kids, d) ==
    IF kids = <<>> THEN list
    ELSE MapExtend(MapInsert(list, Head(kids), d), Tail(kids), d)

\* A bug the flattening could have: children visited whatever the flag says.
RECURSIVE flatten_all(_, _, _, _, _)
flatten_all(n, list, ch, fl, d) ==
    LET list1 == IF ~is_root(n, fl) THEN MapInsert(list, n, d) ELSE list
        Step[i \in 0 .. Len(ch[n])] ==
            IF i = 0 THEN list1
            ELSE flatten_all(ch[n][i], Step[i - 1], ch, fl, d)
    IN Step[Len(ch[n])]

RECURSIVE flatten_rec(_, _, _, _, _)
flatten_rec(n, list, ch, fl, d) ==
    LET list1 == IF ~is_root(n, fl) THEN MapInsert(list, n, d) ELSE list
        Step[i \in 0 .. Len(ch[n])] ==
            IF i = 0 THEN list1
            ELSE flatten_rec(ch[n][i], Step[i - 1], ch, fl, d)
    IN IF "EXPANDED" \notin fl[n] THEN list1 ELSE Step[Len(ch[n])]

flatten_internal(n, list, ch, fl, d) == flatten_rec(n, list, ch, fl, d)

flatten(n, ch, fl, d) == flatten_internal(n, <<>>, ch, fl, d)

combined_len(kids, cl) == SeqSum([i \in 1 .. Len(kids) |-> 1 + cl[kids[i]]])

\* A bug the walk up the ancestors could have: it stops after the parent.
propagate_once(node, c, cl, fl, par) ==
    IF node = Nil THEN cl ELSE [cl EXCEPT ![node] = @ + c]

RECURSIVE propagate(_, _, _, _, _)
propagate(node, c, cl, fl, par) ==
    IF node = Nil THEN cl
    ELSE LET cl1 == [cl EXCEPT ![node] = @ + c]
         IN IF is_root(node, fl) THEN cl1
            ELSE propagate(par[node], c, cl1, fl, par)

insert_children(n, kids, ch, d) ==
    [ch EXCEPT ![n] = MapExtend(@, kids, d)]

\* A bug insert_inner could have: the sizes of the inserted subtrees are
\* left out of the sum.
insert_len_flat(n, kids, update_parent, cl, fl, par) ==
    LET c == Len(kids)
        cl1 == [cl EXCEPT ![n] = @ + c]
    IN IF is_root(n, fl) \/ ~update_parent THEN cl1
       ELSE propagate(par[n], c, cl1, fl, par)

insert_len(n, kids, update_parent, cl, fl, par) ==
    LET c == combined_len(kids, cl)
        cl1 == [cl EXCEPT ![n] = @ + c]
    IN IF is_root(n, fl) \/ ~update_parent THEN cl1
       ELSE propagate(par[n], c, cl1, fl, par)

\* ------------------------------------------------- node.rs: index seek
Cursor(node, offset) == [node |-> node, offset |-> offset]

\* Option<TreeCursor>::None
NoCursor == Cursor(Nil, 0)

\* find_by_index_internal: the children of n are walked with a running
\* offset; the result is the stack, or the panic of line 232.
RECURSIVE find_by_index_internal(_, _, _, _, _, _)
find_by_index_internal(n, index, stack, ch, fl, cl) ==
    LET Scan[i \in 1 .. Len(ch[n]) + 1] ==
            IF i > Len(ch[n]) THEN [panicked |-> TRUE, stack |-> stack]
            ELSE LET child == ch[n][i]
                     offset == i - 1
                 IN IF offset = index
                    THEN [panicked |-> FALSE,
                          stack |-> Append(stack, Cursor(child, offset))]
                    ELSE IF ~({"EXPANDED", "LOADING"} \subseteq fl[child])
                    THEN Scan[i + 1]
                    ELSE IF (offset + 1) + cl[child] >= index
                    THEN find_by_index_internal(n, index - (offset + 1),
                                                stack, ch, fl, cl)
                    ELSE Scan[i + 1]
    IN Scan[1]

find_by_index(n, index, ch, fl, cl) ==
    find_by_index_internal(n, index, <<>>, ch, fl, cl)

\* ---------------------------------------------------------------- iter.rs
\* TreeCursor::next_sibling: the sibling is looked up and a cursor for it is
\* built in a statement whose value is dropped (lines 73-76); the function
\* ends in None (line 79).
next_sibling(cursor, par, ch) ==
    LET siblings == ch[par[cursor.node]]
        next_offset == cursor.offset + 1
        built == IF next_offset < Len(siblings)
                 THEN Cursor(siblings[next_offset + 1], next_offset)
                 ELSE NoCursor
    IN NoCursor

\* The loop of next, lines 42-49: the first frame from the top that has a
\* next sibling is replaced by it, the frames above it are popped.
RECURSIVE Unwind(_, _, _)
Unwind(stack, par, ch) ==
    IF stack = <<>> THEN <<>>
    ELSE LET top == stack[Len(stack)]
             sibling == next_sibling(top, par, ch)
         IN IF sibling # NoCursor
            THEN [stack EXCEPT ![Len(stack)] = sibling]
            ELSE Unwind(SubSeq(stack, 1, Len(stack) - 1), par, ch)

\* TreeNodeIterator::next: the node returned (Nil for None) and the stack
\* left behind.
next(stack, par, ch, fl) ==
    IF stack = <<>> THEN [node |-> Nil, stack |-> stack]
    ELSE LET frame == stack[Len(stack)]
             sibling == next_sibling(frame, par, ch)
         IN IF "EXPANDED" \in fl[frame.node] /\ ch[frame.node] # <<>>
            THEN [node |-> frame.node,
                  stack |-> Append(stack, Cursor(ch[frame.node][1], 0))]
            ELSE IF sibling # NoCursor
            THEN [node |-> frame.node, stack |-> Append(stack, sibling)]
            ELSE [node |-> frame.node,
                  stack |-> Unwind(SubSeq(stack, 1, Len(stack) - 1), par, ch)]

\* ------------------------------------------------------ tree bookkeeping
RECURSIVE Descendants(_, _)
Descendants(n, ch) ==
    Range(ch[n]) \cup UNION {Descendants(c, ch) : c \in Range(ch[n])}

\* The pre-order, sibling-order listing of everything below n.
RECURSIVE PreOrder(_, _)
PreOrder(n, ch) ==
    LET Step[i \in 0 .. Len(ch[n])] ==
            IF i = 0 THEN <<>>
            ELSE Step[i - 1] \o <<ch[n][i]>> \o PreOrder(ch[n][i], ch)
    IN Step[Len(ch[n])]

\* The history of the last operation: which one, on which node, which
\* notify_* it called and the hooks that ran, the provider.expand calls it
\* made, whether it panicked or threw, the nodes it inserted, and the state
\* it started from.
Snapshot == [flat |-> flat, flags |-> flags, children |-> children,
             len |-> children_len, alive |-> ctrlAlive, subs |-> subscribers,
             rendered |-> view.rendered, pool |-> view.pool]

Did(op, node, notified, notes, calls, panicked, kids) ==
    [op |-> op, node |-> node, notified |-> notified, notes |-> notes,
     calls |-> calls, panicked |-> panicked, kids |-> kids, pre |-> Snapshot]

Started ==
    [op |-> "init", node |-> Root, notified |-> "none", notes |-> <<>>,
     calls |-> 0, panicked |-> FALSE, kids |-> <<>>, pre |-> Snapshot]

\* The trees TreeNode::root().build(..) can hand over: node i hangs below an
\* earlier node, siblings are in id order, every subtree was built before it
\* was attached.
ParentVectors(n) == {pv \in [1 .. n -> 0 .. MaxNodes] : \A i \in 1 .. n : pv[i] < i}

BuiltParent(n, pv) ==
    [i \in NodeIds |-> IF i = Root THEN Root ELSE IF i <= n THEN pv[i] ELSE Nil]

BuiltChildren(n, pv) ==
    [i \in NodeIds |->
        LET Pick[j \in 0 .. n] ==
                IF j = 0 THEN <<>>
                ELSE IF pv[j] = i THEN Append(Pick[j - 1], j) ELSE Pick[j - 1]
        IN Pick[n]]

\* ------------------------------------------------------------ dynamic.rs
\* self.flat.replace(self.root.flatten()), and the bug of keeping the old one.
RebuildStale(old, ch, fl, d) == old

Rebuild(old, ch, fl, d) == flatten(Root, ch, fl, d)

\* What a subscriber's hook sees when it asks the controller: count(), and
\* whether the stored projection is the flattening of the hierarchy.
HookView(sub, kind, key, f, ch, fl, d) ==
    [sub |-> sub, kind |-> kind, key |-> key, count |-> Len(f),
     synced |-> f = flatten(Root, ch, fl, d)]

\* A bug for_each_subscriber could have: every reference is taken for live.
for_each_subscriber_all(subs, alive) == subs

\* for_each_subscriber: the references kept (the dead ones are extracted) ...
for_each_subscriber(subs, alive) == SelectSeq(subs, LAMBDA s : s \in alive)

\* ... and the hooks run, in order, on the live ones.
Hooks(subs, alive, kind, key, f, ch, fl, d) ==
    LET live == for_each_subscriber(subs, alive)
    IN [i \in 1 .. Len(live) |-> HookView(live[i], kind, key, f, ch, fl, d)]

notify_update_all(subs, alive, f, ch, fl, d) ==
    Hooks(subs, alive, "all", ROOT_KEY, f, ch, fl, d)

notify_update_item(subs, alive, key, f, ch, fl, d) ==
    Hooks(subs, alive, "item", key, f, ch, fl, d)

\* The keys get_item resolves: the root's, and those of the projection (for
\* any other key flat.get(&key).unwrap() panics; requests come from rows).
Keys == {ROOT_KEY} \cup {KeyOf(flat[i], data) : i \in 1 .. Len(flat)}

get_item(key) ==
    IF KeyOf(Root, data) = key THEN Root
    ELSE CHOOSE n \in Range(flat) : KeyOf(n, data) = key

\* A trap (panic) in the wasm instance ends the program.
Aborted == last.op = "item" /\ last.panicked

Running == ctrlAlive /\ ~Aborted

\* expand, line 95: not expandable.
ExpandNotExpandable(key) ==
    /\ Running
    /\ key \in Keys
    /\ LET item == get_item(key)
       IN /\ ~Expandable(item, data)
          /\ last' = Did("noop", item, "none", <<>>, 0, FALSE, <<>>)
    /\ UNCHANGED <<iter, view,
                   alloc, parent, data, flags, children_len, children, flat,
                   ctrlAlive, subscribers, subAlive, pending>>

\* A bug the collapse could have: the loaded state is forgotten as well.
CollapseFlagsAll(f) == f \ {"EXPANDED", "READY"}

\* flags.remove(EXPANDED), line 101.
CollapseFlags(f) == f \ {"EXPANDED"}

\* expand, lines 99-106: collapse.
ExpandCollapse(key) ==
    /\ Running
    /\ key \in Keys
    /\ LET item == get_item(key)
           fl1 == [flags EXCEPT ![item] = CollapseFlags(@)]
           flat1 == Rebuild(flat, children, fl1, data)
       IN /\ Expandable(item, data)
          /\ "EXPANDED" \in flags[item]
          /\ flags' = fl1
          /\ flat' = flat1
          /\ subscribers' = for_each_subscriber(subscribers, subAlive)
          /\ last' = Did("collapse", item, "all",
                         notify_update_all(subscribers, subAlive, flat1,
                                           children, fl1, data),
                         0, FALSE, <<>>)
    /\ UNCHANGED <<iter, view,
                   alloc, parent, data, children_len, children, ctrlAlive,
                   subAlive, pending>>

\* A bug the re-expansion could have: the flags are written back unchanged.
ExpandFlagsNone(f) == f

\* flags.insert(EXPANDED), line 110.
ExpandFlags(f) == f \cup {"EXPANDED"}

\* expand, lines 108-116: the children are there already.
ExpandFast(key) ==
    /\ Running
    /\ key \in Keys
    /\ LET item == get_item(key)
           fl1 == [flags EXCEPT ![item] = ExpandFlags(@)]
           flat1 == Rebuild(flat, children, fl1, data)
       IN /\ Expandable(item, data)
          /\ "EXPANDED" \notin flags[item]
          /\ "READY" \in flags[item]
          /\ flags' = fl1
          /\ flat' = flat1
          /\ subscribers' = for_each_subscriber(subscribers, subAlive)
          /\ last' = Did("reexpand", item, "all",
                         notify_update_all(subscribers, subAlive, flat1,
                                           children, fl1, data),
                         0, FALSE, <<>>)
    /\ UNCHANGED <<iter, view,
                   alloc, parent, data, children_len, children, ctrlAlive,
                   subAlive, pending>>

\* TreeFlags::toggle.  TreeProvider for TreeNode (node.rs:256) toggles
\* EXPANDED and answers Ready; a provider that answers Ready without
\* touching the flags ends in the same flags, as lines 122-124 insert
\* EXPANDED anyway.
Toggle(f, flag) == IF flag \in f THEN f \ {flag} ELSE f \cup {flag}

\* expand, lines 118-128: the provider answers at once.
ExpandProviderReady(key) ==
    /\ Running
    /\ key \in Keys
    /\ LET item == get_item(key)
           fl0 == [flags EXCEPT ![item] = Toggle(@, "EXPANDED")]
           fl1 == [fl0 EXCEPT ![item] = @ \cup {"EXPANDED", "READY"}]
           flat1 == Rebuild(flat, children, fl1, data)
       IN /\ Expandable(item, data)
          /\ "EXPANDED" \notin flags[item]
          /\ "READY" \notin flags[item]
          /\ flags' = fl1
          /\ flat' = flat1
          /\ subscribers' = for_each_subscriber(subscribers, subAlive)
          /\ last' = Did("ready", item, "all",
                         notify_update_all(subscribers, subAlive, flat1,
                                           children, fl1, data),
                         1, FALSE, <<>>)
    /\ UNCHANGED <<iter, view,
                   alloc, parent, data, children_len, children, ctrlAlive,
                   subAlive, pending>>

\* expand, lines 129-155 up to the spawn: the provider answers with a
\* pending result; the task keeps the item and a copy of the flags.
ExpandProviderAsync(key) ==
    /\ Running
    /\ key \in Keys
    /\ BagCardinality(pending) < MaxPending
    /\ LET item == get_item(key)
           fl1 == [flags EXCEPT ![item] = Toggle(@, "LOADING")]
       IN /\ Expandable(item, data)
          /\ "EXPANDED" \notin flags[item]
          /\ "READY" \notin flags[item]
          /\ flags' = fl1
          /\ subscribers' = for_each_subscriber(subscribers, subAlive)
          /\ pending' = pending (+) SetToBag({[node |-> item, flags |-> fl1[item]]})
          /\ last' = Did("async", item, "item",
                         notify_update_item(subscribers, subAlive, key, flat,
                                            children, fl1, data),
                         1, FALSE, <<>>)
    /\ UNCHANGED <<iter, view,
                   alloc, parent, data, children_len, children, flat,
                   ctrlAlive, subAlive>>

\* A bug the task could have: LOADING is left set.
ResolveFlagsKeepLoading(f) == f \cup {"EXPANDED", "READY"}

\* The flags the task writes back, lines 141-143.
ResolveFlags(f) == (f \ {"LOADING"}) \cup {"EXPANDED", "READY"}

\* The nodes a provider creates for a result: TreeNode::new(item, data).
Fresh(n) == [i \in 1 .. n |-> alloc + i]

\* The tree the spawned task works on: the nodes and the projection.
Tree == [parent |-> parent, data |-> data, flags |-> flags,
         children |-> children, len |-> children_len, flat |-> flat]

\* A bug the task could have: the subtree sizes are taken as they were when
\* the first of the pending results arrived, as the flags are captured at
\* the request, and not as the other task left them.
task_captured_sizes(job, kids, t) ==
    LET item == job.node
        fl1 == [t.flags EXCEPT ![item] = ResolveFlags(job.flags)]
        d1 == [x \in NodeIds |->
                 IF x \in Range(kids)
                 THEN [key |-> x, expandable |-> FALSE] ELSE t.data[x]]
        ch1 == insert_children(item, kids, t.children, d1)
    IN [parent |-> [x \in NodeIds |->
                      IF x \in Range(kids) THEN item ELSE t.parent[x]],
        data |-> d1,
        flags |-> fl1,
        children |-> ch1,
        len |-> insert_len(item, kids, TRUE, children_len, fl1, t.parent),
        flat |-> IF ctrlAlive THEN Rebuild(t.flat, ch1, fl1, d1) ELSE t.flat]

\* The body of the spawned task, lines 138-154, on tree t when the result
\* of job is the children kids (leaves that cannot be expanded): the flags
\* captured at the request are written back without LOADING and with
\* EXPANDED and READY, the children are inserted, and the projection is
\* rebuilt while the controller is alive.
task(job, kids, t) ==
    LET item == job.node
        fl1 == [t.flags EXCEPT ![item] = ResolveFlags(job.flags)]
        d1 == [x \in NodeIds |->
                 IF x \in Range(kids)
                 THEN [key |-> x, expandable |-> FALSE] ELSE t.data[x]]
        ch1 == insert_children(item, kids, t.children, d1)
    IN [parent |-> [x \in NodeIds |->
                      IF x \in Range(kids) THEN item ELSE t.parent[x]],
        data |-> d1,
        flags |-> fl1,
        children |-> ch1,
        len |-> insert_len(item, kids, TRUE, t.len, fl1, t.parent),
        flat |-> IF ctrlAlive THEN Rebuild(t.flat, ch1, fl1, d1) ELSE t.flat]

\* The spawned task, lines 138-154, when the result arrives with n new
\* children.
Resolve(job, n) ==
    /\ ~Aborted
    /\ BagIn(job, pending)
    /\ alloc + n <= MaxNodes
    /\ LET item == job.node
           kids == Fresh(n)
           t1 == task(job, kids, Tree)
       IN /\ alloc' = alloc + n
          /\ parent' = t1.parent
          /\ data' = t1.data
          /\ flags' = t1.flags
          /\ children' = t1.children
          /\ children_len' = t1.len
          /\ flat' = t1.flat
          /\ pending' = pending (-) SetToBag({job})
          /\ IF ctrlAlive
             THEN /\ subscribers' = for_each_subscriber(subscribers, subAlive)
                  /\ last' = Did("resolve", item, "all",
                                 notify_update_all(subscribers, subAlive,
                                                   t1.flat, t1.children,
                                                   t1.flags, t1.data),
                                 0, FALSE, kids)
             ELSE /\ UNCHANGED subscribers
                  /\ last' = Did("resolve", item, "none", <<>>, 0, FALSE, kids)
    /\ UNCHANGED <<iter, view,
                   ctrlAlive, subAlive>>

\* The spawned task when the sender was dropped: job.await is Err(Canceled)
\* and unwrap_throw throws out of the task.
Fail(job) ==
    /\ ~Aborted
    /\ BagIn(job, pending)
    /\ pending' = pending (-) SetToBag({job})
    /\ last' = Did("fail", job.node, "none", <<>>, 0, TRUE, <<>>)
    /\ UNCHANGED <<iter, view,
                   alloc, parent, data, flags, children_len, children, flat,
                   ctrlAlive, subscribers, subAlive>>

\* TreeController::item, line 168: get_index(index).unwrap().
Item(index) ==
    /\ Running
    /\ index <= Len(flat)
    /\ last' = Did("item", IF index < Len(flat) THEN flat[index + 1] ELSE Nil,
                   "none", <<>>, 0, ~(index < Len(flat)), <<>>)
    /\ UNCHANGED <<iter, view,
                   alloc, parent, data, flags, children_len, children, flat,
                   ctrlAlive, subscribers, subAlive, pending>>

\* TreeController::add_subscriber
AddSubscriber(s) ==
    /\ Running
    /\ s \in subAlive
    /\ s \notin Range(subscribers)
    /\ subscribers' = Append(subscribers, s)
    /\ last' = Did("subscribe", Root, "none", <<>>, 0, FALSE, <<>>)
    /\ UNCHANGED <<iter, view,
                   alloc, parent, data, flags, children_len, children, flat,
                   ctrlAlive, subAlive, pending>>

\* The owner of a subscriber drops it; the controller only holds a Weak.
DropSubscriber(s) ==
    /\ ~Aborted
    /\ s \in subAlive
    /\ subAlive' = subAlive \ {s}
    /\ last' = Did("unsubscribe", Root, "none", <<>>, 0, FALSE, <<>>)
    /\ UNCHANGED <<iter, view,
                   alloc, parent, data, flags, children_len, children, flat,
                   ctrlAlive, subscribers, pending>>

\* The owner drops the DynamicTree: its projection and subscriber list go;
\* the nodes stay, held by the provider and by the spawned tasks.
DropController ==
    /\ Running
    /\ ctrlAlive' = FALSE
    /\ flat' = <<>>
    /\ subscribers' = <<>>
    /\ last' = Did("drop", Root, "none", <<>>, 0, FALSE, <<>>)
    /\ UNCHANGED <<iter, view,
                   alloc, parent, data, flags, children_len, children,
                   subAlive, pending>>

\* DynamicTree::new on a root built with build: flags are ROOT on the root
\* and empty elsewhere, the projection is root.flatten().  The built nodes
\* are expandable.
Init ==
    /\ \E n \in 0 .. InitNodes : \E pv \in ParentVectors(n) :
          /\ alloc = n
          /\ parent = BuiltParent(n, pv)
          /\ children = BuiltChildren(n, pv)
          /\ data = [i \in NodeIds |->
                      [key |-> IF i = Root THEN ROOT_KEY ELSE i,
                       expandable |-> i <= n]]
          /\ children_len =
               [i \in NodeIds |-> Cardinality(Descendants(i, BuiltChildren(n, pv)))]
    /\ flags = [i \in NodeIds |-> IF i = Root THEN {"ROOT"} ELSE {}]
    /\ flat = flatten(Root, children, flags, data)
    /\ ctrlAlive = TRUE
    /\ subscribers = <<>>
    /\ subAlive = Subs
    /\ pending = EmptyBag
    /\ iter = NoIter
    /\ view = NoView
    /\ last = Started

Next ==
    \/ \E key \in 1 .. ROOT_KEY : ExpandNotExpandable(key)
    \/ \E key \in 1 .. ROOT_KEY : ExpandCollapse(key)
    \/ \E key \in 1 .. ROOT_KEY : ExpandFast(key)
    \/ \E key \in 1 .. ROOT_KEY : ExpandProviderReady(key)
    \/ \E key \in 1 .. ROOT_KEY : ExpandProviderAsync(key)
    \/ \E job \in BagToSet(pending) : \E n \in 0 .. MaxKids : Resolve(job, n)
    \/ \E job \in BagToSet(pending) : Fail(job)
    \/ \E index \in 0 .. MaxNodes : Item(index)
    \/ \E s \in Subs : AddSubscriber(s)
    \/ \E s \in Subs : DropSubscriber(s)
    \/ DropController

Spec == Init /\ [][Next]_vars

\* ------------------------------------------- two results pending together
\* DynamicTree::new, lines 37-49, over a tree of PairNodes expandable nodes,
\* so that two of them can be listed and awaiting a result together.
PairInit ==
    /\ \E pv \in ParentVectors(PairNodes) :
          /\ alloc = PairNodes
          /\ parent = BuiltParent(PairNodes, pv)
          /\ children = BuiltChildren(PairNodes, pv)
          /\ data = [i \in NodeIds |->
                      [key |-> IF i = Root THEN ROOT_KEY ELSE i,
                       expandable |-> i <= PairNodes]]
          /\ children_len =
               [i \in NodeIds |->
                  Cardinality(Descendants(i, BuiltChildren(PairNodes, pv)))]
    /\ flags = [i \in NodeIds |-> IF i = Root THEN {"ROOT"} ELSE {}]
    /\ flat = flatten(Root, children, flags, data)
    /\ ctrlAlive = TRUE
    /\ subscribers = <<>>
    /\ subAlive = Subs
    /\ pending = EmptyBag
    /\ iter = NoIter
    /\ view = NoView
    /\ last = Started

PairNext ==
    \/ \E key \in 1 .. ROOT_KEY : ExpandCollapse(key)
    \/ \E key \in 1 .. ROOT_KEY : ExpandFast(key)
    \/ \E key \in 1 .. ROOT_KEY : ExpandProviderReady(key)
    \/ \E key \in 1 .. ROOT_KEY : ExpandProviderAsync(key)
    \/ \E job \in BagToSet(pending) : \E n \in 0 .. MaxKids : Resolve(job, n)

PairSpec == PairInit /\ [][PairNext]_vars

\* ------------------------------------------------ every result is delivered
\* The operations of the controller while every pending result arrives:
\* the sender is never dropped and no row outside the projection is asked
\* for, which would end the program before the result is delivered.
LoadNext ==
    \/ \E key \in 1 .. ROOT_KEY : ExpandNotExpandable(key)
    \/ \E key \in 1 .. ROOT_KEY : ExpandCollapse(key)
    \/ \E key \in 1 .. ROOT_KEY : ExpandFast(key)
    \/ \E key \in 1 .. ROOT_KEY : ExpandProviderReady(key)
    \/ \E key \in 1 .. ROOT_KEY : ExpandProviderAsync(key)
    \/ \E job \in BagToSet(pending) : \E n \in 0 .. MaxKids : Resolve(job, n)
    \/ DropController

\* The event queue of the host runs the task spawned for node x once its
\* result has arrived (spawn_local, line 138).
Delivery(x) ==
    \E job \in BagToSet(pending) : \E n \in 0 .. MaxKids :
       job.node = x /\ Resolve(job, n)

LoadSpec ==
    Init /\ [][LoadNext]_vars /\ \A x \in NodeIds : WF_vars(Delivery(x))

\* --------------------------------------------- the controller's subscribers
\* The views that can subscribe in the specification of the notifications.
Watchers == 1 .. MaxWatchers

\* DynamicTree::new as in Init, with more views alive that can subscribe.
NotifyInit ==
    /\ \E n \in 0 .. InitNodes : \E pv \in ParentVectors(n) :
          /\ alloc = n
          /\ parent = BuiltParent(n, pv)
          /\ children = BuiltChildren(n, pv)
          /\ data = [i \in NodeIds |->
                      [key |-> IF i = Root THEN ROOT_KEY ELSE i,
                       expandable |-> i <= n]]
          /\ children_len =
               [i \in NodeIds |-> Cardinality(Descendants(i, BuiltChildren(n, pv)))]
    /\ flags = [i \in NodeIds |-> IF i = Root THEN {"ROOT"} ELSE {}]
    /\ flat = flatten(Root, children, flags, data)
    /\ ctrlAlive = TRUE
    /\ subscribers = <<>>
    /\ subAlive = Watchers
    /\ pending = EmptyBag
    /\ iter = NoIter
    /\ view = NoView
    /\ last = Started

\* The operations that notify, and the subscribers coming and going.
NotifyNext ==
    \/ \E key \in 1 .. ROOT_KEY : ExpandCollapse(key)
    \/ \E key \in 1 .. ROOT_KEY : ExpandFast(key)
    \/ \E key \in 1 .. ROOT_KEY : ExpandProviderReady(key)
    \/ \E key \in 1 .. ROOT_KEY : ExpandProviderAsync(key)
    \/ \E job \in BagToSet(pending) : \E n \in 0 .. MaxKids : Resolve(job, n)
    \/ \E s \in Watchers : AddSubscriber(s)
    \/ \E s \in Watchers : DropSubscriber(s)

NotifySpec == NotifyInit /\ [][NotifyNext]_vars

\* ---------------------------------------------------------------- view.rs
item_height == 24

\* The viewport heights and scroll offsets tried: none, less than a row, a
\* row, and the sizes of the documented example.
Heights == {0, 1, item_height, 10 * item_height}

Offsets == {0, item_height - 1, item_height, 2 * item_height + 1,
            20 * item_height}

Min(a, b) == IF a <= b THEN a ELSE b

\* A bug the window could have: the viewport height is rounded up.
visible_count_ceil(height) == (height + item_height - 1) \div item_height + 2

\* let visible_count = size.1 / self.item_height + 2, line 196.
visible_count(height) == height \div item_height + 2

\* let first_visible = offset / self.item_height, line 195.
first_visible(offset) == offset \div item_height

\* let right = state.count.min(first_visible + visible_count), line 207.
right(v, count) ==
    Min(count, first_visible(v.offset) + visible_count(v.height))

RenderedKeys(v) == {r.key : r \in v.rendered}

\* A bug the reuse could have: the pool is never asked.
take_fresh(v, key) ==
    [v EXCEPT !.rendered = @ \cup {[key |-> key, id |-> v.created + 1]},
              !.created = @ + 1]

\* Lines 223-232: the rendering for a key that has none comes from the end
\* of the pool, or is made when the pool is empty.
take(v, key) ==
    IF v.pool # <<>>
    THEN [v EXCEPT !.rendered = @ \cup {[key |-> key, id |-> v.pool[Len(v.pool)]]},
                   !.pool = SubSeq(@, 1, Len(@) - 1)]
    ELSE [v EXCEPT !.rendered = @ \cup {[key |-> key, id |-> v.created + 1]},
                   !.created = @ + 1]

\* The loop of update, lines 212-234, from row index to row to - 1 of the
\* rows f the controller answers with.
RECURSIVE update_rows(_, _, _, _, _)
update_rows(index, to, f, d, v) ==
    IF index >= to THEN v
    ELSE LET key == KeyOf(f[index + 1], d)
             v1 == IF key \in RenderedKeys(v) THEN v ELSE take(v, key)
         IN update_rows(index + 1, to, f, d,
                        [v1 EXCEPT !.rows = Append(@, index)])

\* update up to the end of the loop: count is read, the range is walked.
update_loop(v, f, d) ==
    update_rows(first_visible(v.offset), right(v, Len(f)), f, d,
                [v EXCEPT !.count = Len(f), !.rows = <<>>,
                          !.peak = IF visible_count(v.height) > @
                                   THEN visible_count(v.height) ELSE @])

\* The keys visited by the loop.
visited(v, f, d) == {KeyOf(f[i + 1], d) : i \in Range(v.rows)}

\* A bug the release could have: nothing is taken out of the map.
released_none(v, f, d) == {}

\* Lines 236-240: what extract_if takes out of the map.
released(v, f, d) == {r \in v.rendered : r.key \notin visited(v, f, d)}

\* The orders a HashMap can hand the released renderings out in.
Orders(S) ==
    {o \in [1 .. Cardinality(S) -> S] :
        \A i, j \in 1 .. Cardinality(S) : o[i] = o[j] => i = j}

\* TreeView::update: the loop, then the released renderings are pushed on
\* the pool in the order given.
update(v, f, d, order) ==
    LET v1 == update_loop(v, f, d)
    IN [v1 EXCEPT !.rendered = @ \ released(v1, f, d),
                  !.pool = @ \o [i \in 1 .. Len(order) |-> order[i].id]]

\* TreeView::render on a DynamicTree just made from a built tree: the state
\* is set up with size (0, 0) and offset 0 and update runs once.
ViewInit ==
    /\ \E n \in 0 .. TreeNodes : \E pv \in ParentVectors(n) :
          /\ alloc = n
          /\ parent = BuiltParent(n, pv)
          /\ children = BuiltChildren(n, pv)
          /\ data = [i \in NodeIds |->
                      [key |-> IF i = Root THEN ROOT_KEY ELSE i,
                       expandable |-> i = Root \/ BuiltChildren(n, pv)[i] # <<>>]]
          /\ children_len =
               [i \in NodeIds |-> Cardinality(Descendants(i, BuiltChildren(n, pv)))]
    /\ flags = [i \in NodeIds |-> IF i = Root THEN {"ROOT"} ELSE {}]
    /\ flat = flatten(Root, children, flags, data)
    /\ ctrlAlive = TRUE
    /\ subscribers = <<1>>
    /\ subAlive = {1}
    /\ pending = EmptyBag
    /\ iter = NoIter
    /\ view = update(NoView, flat, data, <<>>)
    /\ last = Started

\* update_size(width, height)
ViewUpdateSize(height) ==
    /\ LET v0 == [view EXCEPT !.height = height]
       IN \E order \in Orders(released(update_loop(v0, flat, data), flat, data)) :
             view' = update(v0, flat, data, order)
    /\ last' = Did("size", Root, "none", <<>>, 0, FALSE, <<>>)
    /\ UNCHANGED <<alloc, parent, data, flags, children_len, children, flat,
                   ctrlAlive, subscribers, subAlive, pending, iter>>

\* update_scroll(offset_top)
ViewUpdateScroll(offset) ==
    /\ LET v0 == [view EXCEPT !.offset = offset]
       IN \E order \in Orders(released(update_loop(v0, flat, data), flat, data)) :
             view' = update(v0, flat, data, order)
    /\ last' = Did("scroll", Root, "none", <<>>, 0, FALSE, <<>>)
    /\ UNCHANGED <<alloc, parent, data, flags, children_len, children, flat,
                   ctrlAlive, subscribers, subAlive, pending, iter>>

\* A click on a row (or a request for the root) whose node is expandable:
\* DynamicTree::expand with the tree as its own provider collapses the node
\* or expands it at once, rebuilds the projection and notifies; the view's
\* update_all hook runs update.
ViewExpand(key) ==
    /\ key \in Keys
    /\ LET item == get_item(key)
           fl1 == [flags EXCEPT ![item] =
                     IF "EXPANDED" \in @ THEN CollapseFlags(@)
                     ELSE @ \cup {"EXPANDED", "READY"}]
           flat1 == Rebuild(flat, children, fl1, data)
       IN /\ Expandable(item, data)
          /\ flags' = fl1
          /\ flat' = flat1
          /\ \E order \in Orders(released(update_loop(view, flat1, data),
                                          flat1, data)) :
                view' = update(view, flat1, data, order)
          /\ last' = Did("expand", item, "all",
                         notify_update_all(subscribers, subAlive, flat1,
                                           children, fl1, data),
                         0, FALSE, <<>>)
    /\ UNCHANGED <<alloc, parent, data, children_len, children, ctrlAlive,
                   subscribers, subAlive, pending, iter>>

ViewNext ==
    \/ \E height \in Heights : ViewUpdateSize(height)
    \/ \E offset \in Offsets : ViewUpdateScroll(offset)
    \/ \E key \in 1 .. ROOT_KEY : ViewExpand(key)

ViewSpec == ViewInit /\ [][ViewNext]_vars

\* ----------------------------------------------------------- TreeNode alone
\* Init of the specification that exercises the TreeNode API on its own: any
\* tree of up to TreeNodes nodes, with any assignment of EXPANDED and, below
\* the root, of LOADING (nothing here reads LOADING on the root).
TreeInit ==
    /\ \E n \in 0 .. TreeNodes : \E pv \in ParentVectors(n) :
          /\ alloc = n
          /\ parent = BuiltParent(n, pv)
          /\ children = BuiltChildren(n, pv)
          /\ data = [i \in NodeIds |->
                      [key |-> IF i = Root THEN ROOT_KEY ELSE i,
                       expandable |-> i = Root \/ BuiltChildren(n, pv)[i] # <<>>]]
          /\ children_len =
               [i \in NodeIds |-> Cardinality(Descendants(i, BuiltChildren(n, pv)))]
          /\ \E ex \in SUBSET (0 .. n) : \E ld \in SUBSET (1 .. n) :
                flags = [i \in NodeIds |->
                           (IF i = Root THEN {"ROOT"} ELSE {})
                           \cup (IF i \in ex THEN {"EXPANDED"} ELSE {})
                           \cup (IF i \in ld THEN {"LOADING"} ELSE {})]
    /\ flat = <<>>
    /\ ctrlAlive = FALSE
    /\ subscribers = <<>>
    /\ subAlive = {}
    /\ pending = EmptyBag
    /\ iter = NoIter
    /\ view = NoView
    /\ last = Started

\* root.flatten(); the result is kept in flat.
TreeFlatten ==
    /\ flat' = flatten(Root, children, flags, data)
    /\ last' = Did("flatten", Root, "none", <<>>, 0, FALSE, <<>>)
    /\ UNCHANGED <<iter, view,
                   alloc, parent, data, flags, children_len, children,
                   ctrlAlive, subscribers, subAlive, pending>>

\* root.slice(start..end): TreeNodeIterator::new seeks range.start; the end
\* of the range is stored and never read.  A panic leaves no iterator, only
\* the start that was asked for.
TreeSlice(start) ==
    /\ LET found == find_by_index(Root, start, children, flags, children_len)
       IN /\ iter' = [made |-> ~found.panicked, start |-> start,
                      stack |-> found.stack, out |-> <<>>, done |-> FALSE]
          /\ last' = Did("slice", Root, "none", <<>>, 0, found.panicked, <<>>)
    /\ UNCHANGED <<alloc, parent, data, flags, children_len, children, flat,
                   ctrlAlive, subscribers, subAlive, pending, view>>

\* TreeNodeIterator::next on the iterator made by slice; a returned node is
\* appended to out, None sets done.
TreeIterNext ==
    /\ iter.made
    /\ LET r == next(iter.stack, parent, children, flags)
       IN /\ iter' = [iter EXCEPT !.stack = r.stack,
                                  !.out = IF r.node = Nil THEN @
                                          ELSE Append(@, r.node),
                                  !.done = (r.node = Nil)]
          /\ last' = Did("next", r.node, "none", <<>>, 0, FALSE, <<>>)
    /\ UNCHANGED <<alloc, parent, data, flags, children_len, children, flat,
                   ctrlAlive, subscribers, subAlive, pending, view>>

TreeNext ==
    \/ TreeFlatten
    \/ \E start \in 0 .. TreeNodes : TreeSlice(start)
    \/ TreeIterNext

TreeSpec == TreeInit /\ [][TreeNext]_vars

\* ------------------------------------------------- building a TreeNode tree
\* The nodes created with parent p (TreeNode::new(p, data) keeps a Weak to p)
\* that no insert has put into p's child list yet, in creation order.
Detached(p) ==
    SelectSeq([i \in 1 .. alloc |-> i],
              LAMBDA x : parent[x] = p /\ x # p /\ x \notin Range(children[p]))

\* n is the root or hangs, through the child lists, below the root.
RECURSIVE Attached(_)
Attached(n) ==
    \/ n = Root
    \/ /\ parent[n] # Nil
       /\ n \in Range(children[parent[n]])
       /\ Attached(parent[n])

\* TreeNode::root(): the root alone.
BuildInit ==
    /\ alloc = 0
    /\ parent = [i \in NodeIds |-> IF i = Root THEN Root ELSE Nil]
    /\ children = [i \in NodeIds |-> <<>>]
    /\ data = [i \in NodeIds |->
                [key |-> IF i = Root THEN ROOT_KEY ELSE i, expandable |-> TRUE]]
    /\ children_len = [i \in NodeIds |-> 0]
    /\ flags = [i \in NodeIds |-> IF i = Root THEN {"ROOT"} ELSE {}]
    /\ flat = <<>>
    /\ ctrlAlive = FALSE
    /\ subscribers = <<>>
    /\ subAlive = {}
    /\ pending = EmptyBag
    /\ iter = NoIter
    /\ view = NoView
    /\ last = Started

\* TreeNode::new(p, data) with a key of its own: no children, no flags,
\* children_len 0, not yet in p's child list.
TreeNew(p) ==
    /\ alloc < TreeNodes
    /\ p \in 0 .. alloc
    /\ alloc' = alloc + 1
    /\ parent' = [parent EXCEPT ![alloc + 1] = p]
    /\ last' = Did("new", alloc + 1, "none", <<>>, 0, FALSE, <<>>)
    /\ UNCHANGED <<iter, view,
                   data, flags, children_len, children, flat, ctrlAlive,
                   subscribers, subAlive, pending>>

\* p.build(|p| kids) while p is the root or has not been handed to its
\* parent yet: the children created for p are added without propagation.
TreeBuild(p) ==
    /\ p \in 0 .. alloc
    /\ p = Root \/ p \notin Range(children[parent[p]])
    /\ Detached(p) # <<>>
    /\ children' = insert_children(p, Detached(p), children, data)
    /\ children_len' =
          insert_len(p, Detached(p), FALSE, children_len, flags, parent)
    /\ last' = Did("build", p, "none", <<>>, 0, FALSE, Detached(p))
    /\ UNCHANGED <<iter, view,
                   alloc, parent, data, flags, flat, ctrlAlive, subscribers,
                   subAlive, pending>>

\* p.insert(kids) on a node of the tree: the children created for p are
\* added and the ancestors are told.
TreeInsert(p) ==
    /\ p \in 0 .. alloc
    /\ Attached(p)
    /\ Detached(p) # <<>>
    /\ children' = insert_children(p, Detached(p), children, data)
    /\ children_len' =
          insert_len(p, Detached(p), TRUE, children_len, flags, parent)
    /\ last' = Did("insert", p, "none", <<>>, 0, FALSE, Detached(p))
    /\ UNCHANGED <<iter, view,
                   alloc, parent, data, flags, flat, ctrlAlive, subscribers,
                   subAlive, pending>>

\* TreeProvider for TreeNode, expand: toggles EXPANDED on the node.
TreeExpand(n) ==
    /\ n \in 0 .. alloc
    /\ flags' = [flags EXCEPT ![n] = Toggle(@, "EXPANDED")]
    /\ last' = Did("toggle", n, "none", <<>>, 0, FALSE, <<>>)
    /\ UNCHANGED <<iter, view,
                   alloc, parent, data, children_len, children, flat,
                   ctrlAlive, subscribers, subAlive, pending>>

BuildNext ==
    \/ \E p \in NodeIds : TreeNew(p)
    \/ \E p \in NodeIds : TreeBuild(p)
    \/ \E p \in NodeIds : TreeInsert(p)
    \/ \E n \in NodeIds : TreeExpand(n)

BuildSpec == BuildInit /\ [][BuildNext]_vars

\* ------------------------------------------- inserting with keys of choice
\* TreeNode::new(p, data) where the caller chooses the key of the new node;
\* p is a node that exists.
KeyNew(p, key) ==
    /\ alloc < TreeNodes
    /\ p \in 0 .. alloc
    /\ parent[p] # Nil
    /\ alloc' = alloc + 1
    /\ parent' = [parent EXCEPT ![alloc + 1] = p]
    /\ data' = [data EXCEPT ![alloc + 1].key = key]
    /\ last' = Did("new", alloc + 1, "none", <<>>, 0, FALSE, <<>>)
    /\ UNCHANGED <<iter, view,
                   flags, children_len, children, flat, ctrlAlive,
                   subscribers, subAlive, pending>>

\* p.insert(kids) on a node of the tree, lines 126-158, with the children
\* created for p, whatever their keys.  The IndexMap owns the children: a
\* child whose place is taken by another of the same key is dropped and
\* exists no more.
KeyInsert(p) ==
    /\ p \in 0 .. alloc
    /\ Attached(p)
    /\ Detached(p) # <<>>
    /\ LET kids == Detached(p)
           ch1 == insert_children(p, kids, children, data)
           dropped == (Range(children[p]) \cup Range(kids)) \ Range(ch1[p])
       IN /\ children' = ch1
          /\ children_len' =
                insert_len(p, kids, TRUE, children_len, flags, parent)
          /\ parent' = [x \in NodeIds |->
                          IF x \in dropped THEN Nil ELSE parent[x]]
          /\ last' = Did("insert", p, "none", <<>>, 0, FALSE, kids)
    /\ UNCHANGED <<iter, view,
                   alloc, data, flags, flat, ctrlAlive, subscribers,
                   subAlive, pending>>

KeyNext ==
    \/ \E p \in NodeIds : \E key \in 1 .. MaxKeys : KeyNew(p, key)
    \/ \E p \in NodeIds : KeyInsert(p)

KeySpec == BuildInit /\ [][KeyNext]_vars

\* ------------------------------------------------------------ properties
InFlat(n) == n \in Range(flat)

NoRowTwice(f) == \A i, j \in 1 .. Len(f) : f[i] = f[j] => i = j

\* The registered subscribers that are alive when the last operation notifies.
LiveBefore == {s \in Range(last.pre.subs) : s \in subAlive}

\* The last operation called notify_* of this kind once: every live
\* subscriber's hook ran exactly once for this key, and no other hook ran.
NotifiedOnce(kind, key) ==
    /\ last.notified = kind
    /\ \A s \in LiveBefore :
          Cardinality({i \in 1 .. Len(last.notes) : last.notes[i].sub = s}) = 1
    /\ \A i \in 1 .. Len(last.notes) :
          /\ last.notes[i].sub \in LiveBefore
          /\ last.notes[i].kind = kind
          /\ last.notes[i].key = key

\* C1: flatten(root) lists non-root nodes in pre-order and sibling order; a
\* node whose parent is not the root is listed exactly when its parent is
\* listed and carries EXPANDED; no node is listed twice, every node comes
\* before its descendants, and the root is not listed.
C1_FlattenIsVisiblePreOrder ==
    last.op = "flatten" =>
        /\ Root \notin Range(flat)
        /\ NoRowTwice(flat)
        /\ \A n \in 1 .. alloc :
              parent[n] # Root =>
                 (InFlat(n) <=>
                    (InFlat(parent[n]) /\ "EXPANDED" \in flags[parent[n]]))
        /\ flat = SelectSeq(PreOrder(Root, children), InFlat)
        /\ \A i, j \in 1 .. Len(flat) :
              flat[j] \in Descendants(flat[i], children) => i < j

\* A flattening that lists a grandchild of the root and leaves a node out
\* whose parent is listed but collapsed.
C1_Witness ==
    /\ last.op = "flatten"
    /\ \E n \in 1 .. alloc :
          /\ InFlat(n)
          /\ parent[n] # Root
    /\ \E m \in 1 .. alloc :
          /\ ~InFlat(m)
          /\ InFlat(parent[m])

\* C2: while the root's flags are ROOT alone, every direct child of the root
\* is in flatten(root), and count() is at least the number of root children.
C2_RootChildrenAlwaysListed ==
    (ctrlAlive /\ flags[Root] = {"ROOT"}) =>
        /\ \A c \in Range(children[Root]) :
              c \in Range(flatten(Root, children, flags, data))
        /\ Len(flat) >= Len(children[Root])

\* C3: whenever an update_all hook runs, the stored projection is the
\* flattening of the hierarchy as it is then, and count() seen in the hook
\* is the number of rows of that flattening.
C3_RebuildBeforeNotifyAll ==
    \A i \in 1 .. Len(last.notes) :
        last.notes[i].kind = "all" =>
            /\ last.notes[i].synced
            /\ last.notes[i].count =
                  Len(flatten(Root, children, flags, data))

\* An update_all hook that ran after a resolution changed the projection.
C3_Witness ==
    /\ last.op = "resolve"
    /\ last.notes # <<>>
    /\ last.notes[1].kind = "all"
    /\ flat # last.pre.flat

\* C4: item(index) with index >= count() gives the caller an error value and
\* does not panic.
C4_ItemOutOfRangeIsAnError ==
    (last.op = "item" /\ last.node = Nil) => ~last.panicked

\* C5: a pending expand request on an expandable node that is neither
\* EXPANDED nor READY leaves LOADING set on the node, runs the single-item
\* hook of every live subscriber once for that key and no full-update hook,
\* and leaves the projection as it was.
C5_PendingExpandSetsLoading ==
    last.op = "async" =>
        /\ "LOADING" \in flags[last.node]
        /\ NotifiedOnce("item", KeyOf(last.node, data))
        /\ flat = last.pre.flat

\* C6 as claimed: whenever a pending expansion resolves with n children, the
\* node has LOADING cleared and EXPANDED and READY set, the n children are
\* its children, count() is n larger than before, and one full-update
\* notification fires.
C6_ResolveAddsItsChildrenToCount ==
    last.op = "resolve" =>
        /\ "LOADING" \notin flags[last.node]
        /\ {"EXPANDED", "READY"} \subseteq flags[last.node]
        /\ Range(last.kids) \subseteq Range(children[last.node])
        /\ Len(flat) = Len(last.pre.flat) + Len(last.kids)
        /\ NotifiedOnce("all", ROOT_KEY)

\* The node of the last operation was a row of the projection (or the root)
\* when the operation started.
WasListed == last.node = Root \/ last.node \in Range(last.pre.flat)

\* C6 as amended: a resolution with n children clears LOADING, sets EXPANDED
\* and READY and appends the n children to the node; while the controller
\* is alive the projection is rebuilt and one full-update notification
\* fires; count() is n larger when the node was listed and either was
\* EXPANDED or had no children, and the projection is unchanged when the
\* node was not listed; with the controller dropped nothing is notified.
C6_ResolveAmended ==
    last.op = "resolve" =>
        /\ "LOADING" \notin flags[last.node]
        /\ {"EXPANDED", "READY"} \subseteq flags[last.node]
        /\ children[last.node] = last.pre.children[last.node] \o last.kids
        /\ last.pre.alive =>
              /\ NotifiedOnce("all", ROOT_KEY)
              /\ flat = flatten(Root, children, flags, data)
              /\ (/\ WasListed
                  /\ \/ "EXPANDED" \in last.pre.flags[last.node]
                     \/ last.pre.children[last.node] = <<>>)
                    => Len(flat) = Len(last.pre.flat) + Len(last.kids)
              /\ ~WasListed => flat = last.pre.flat
        /\ ~last.pre.alive => last.notified = "none"

\* A resolution that delivered two children to a listed node and was seen
\* by a subscriber.
C6_Witness ==
    /\ last.op = "resolve"
    /\ last.pre.alive
    /\ WasListed
    /\ last.node # Root
    /\ Len(last.kids) = 2
    /\ Len(flat) = Len(last.pre.flat) + 2
    /\ last.notes # <<>>

ExpandOps == {"noop", "collapse", "reexpand", "ready", "async"}

\* C7: an expand request on a node that is LOADING makes no provider.expand
\* call and leaves the node's flags as they were.
C7_ExpandWhileLoadingIsRejected ==
    (last.op \in ExpandOps /\ "LOADING" \in last.pre.flags[last.node]) =>
        /\ last.calls = 0
        /\ flags[last.node] = last.pre.flags[last.node]

\* C8: after a pending expansion failed the node is not LOADING, not
\* EXPANDED and not READY, the projection is unchanged, a single-item update
\* for the node was delivered, and nothing was thrown.
C8_FailureClearsLoading ==
    last.op = "fail" =>
        /\ flags[last.node] \cap {"LOADING", "EXPANDED", "READY"} = {}
        /\ flat = last.pre.flat
        /\ NotifiedOnce("item", KeyOf(last.node, data))
        /\ ~last.panicked

\* C9: a result that resolves after the controller was dropped, or when the
\* node is no longer LOADING, changes no flags, no child list and no cached
\* subtree size.
C9_StaleResolutionIsDiscarded ==
    (/\ last.op = "resolve"
     /\ \/ ~last.pre.alive
        \/ "LOADING" \notin last.pre.flags[last.node]) =>
        /\ flags = last.pre.flags
        /\ children = last.pre.children
        /\ children_len = last.pre.len

\* C10: collapsing clears EXPANDED on that node and changes no other flag,
\* removes from the projection exactly the rows below the node and keeps the
\* order of the others, leaves every child list and cached subtree size as
\* it was, calls no provider, and notifies a full update once.
C10_CollapseFrame ==
    last.op = "collapse" =>
        /\ flags = [last.pre.flags EXCEPT ![last.node] = @ \ {"EXPANDED"}]
        /\ "EXPANDED" \in last.pre.flags[last.node]
        /\ flat = SelectSeq(last.pre.flat,
                            LAMBDA n : n \notin Descendants(last.node, children))
        /\ children = last.pre.children
        /\ children_len = last.pre.len
        /\ last.calls = 0
        /\ NotifiedOnce("all", ROOT_KEY)

\* A collapse of a listed node that removed a row, kept a row after it, and
\* was seen by a subscriber.
C10_Witness ==
    /\ last.op = "collapse"
    /\ last.node # Root
    /\ Len(flat) < Len(last.pre.flat)
    /\ \E i \in 1 .. Len(flat) - 1 : flat[i] = last.node
    /\ "READY" \in flags[last.node]
    /\ last.notes # <<>>

\* C11: when an expand request on a node follows directly on the collapse of
\* that node, which was EXPANDED and READY, the second request takes the
\* re-expand path, the projection is again what it was before the collapse
\* (same nodes, same order), and neither request called provider.expand.
C11_CollapseReexpandRoundTrip ==
    [][(/\ last.op = "collapse"
        /\ {"EXPANDED", "READY"} \subseteq last.pre.flags[last.node]
        /\ last'.op \in ExpandOps
        /\ last'.node = last.node)
       => (/\ last'.op = "reexpand"
           /\ flat' = last.pre.flat
           /\ [i \in 1 .. Len(flat') |-> KeyOf(flat'[i], data')]
                = [i \in 1 .. Len(last.pre.flat) |-> KeyOf(last.pre.flat[i], data)]
           /\ last.calls = 0
           /\ last'.calls = 0)]_vars

\* A re-expansion of a listed node that brought back two rows, one of them
\* after a row that follows the node's subtree.
C11_Witness ==
    /\ last.op = "reexpand"
    /\ last.node # Root
    /\ last.calls = 0
    /\ Len(flat) = Len(last.pre.flat) + 2
    /\ last.node \in Range(flat)

\* The key sequence of a projection.
KeySeq(f, d) == [i \in 1 .. Len(f) |-> KeyOf(f[i], d)]

\* C12 as claimed: an expand request on a node that is already EXPANDED
\* leaves the key sequence of the projection as it was and inserts no child
\* a second time.
C12_ExpandOnExpandedIsNoOp ==
    (last.op \in ExpandOps /\ "EXPANDED" \in last.pre.flags[last.node]) =>
        /\ KeySeq(flat, data) = KeySeq(last.pre.flat, data)
        /\ children = last.pre.children

\* C12 as amended: an expand request on an expandable node that is already
\* EXPANDED takes the collapse path: it calls no provider and inserts no
\* child, and the projection afterwards is the one before without the rows
\* below the node, so its key sequence is the same exactly when the node
\* has no children.
C12_ExpandOnExpandedCollapses ==
    (/\ last.op \in ExpandOps
     /\ "EXPANDED" \in last.pre.flags[last.node]
     /\ Expandable(last.node, data)) =>
        /\ last.op = "collapse"
        /\ last.calls = 0
        /\ children = last.pre.children
        /\ KeySeq(flat, data) =
              KeySeq(SelectSeq(last.pre.flat,
                               LAMBDA n : n \notin Descendants(last.node, children)),
                     data)
        /\ (KeySeq(flat, data) = KeySeq(last.pre.flat, data))
              <=> (children[last.node] = <<>>)

\* An expand request on the EXPANDED root that emptied a projection of at
\* least two rows.
C12_Witness ==
    /\ last.op = "collapse"
    /\ last.node = Root
    /\ Len(last.pre.flat) >= 2
    /\ flat = <<>>

\* The nodes that exist.
Nodes == 0 .. alloc

\* C13 as claimed: after any insert (build or propagating insert), for every
\* node including the root, the cached subtree size is 1 plus the sum of the
\* cached subtree sizes of its direct children.
C13_SizeIsOnePlusChildren ==
    last.op \in {"build", "insert"} =>
        \A n \in Nodes :
            children_len[n] =
               1 + SeqSum([i \in 1 .. Len(children[n]) |->
                              children_len[children[n][i]]])

\* C13 as amended: after any build of a subtree not yet attached and any
\* propagating insert on an attached node, with keys new among the siblings,
\* for every node including the root the cached subtree size is the sum,
\* over its direct children, of 1 plus the child's cached subtree size; a
\* node without children has size 0.
C13_SizeIsSumOverChildren ==
    last.op \in {"build", "insert"} =>
        \A n \in Nodes :
            children_len[n] =
               SeqSum([i \in 1 .. Len(children[n]) |->
                          1 + children_len[children[n][i]]])

\* A propagating insert of a child that itself has a child, on a node below
\* the root.
C13_Witness ==
    /\ last.op = "insert"
    /\ last.node # Root
    /\ \E k \in Range(last.kids) : children[k] # <<>>
    /\ children_len[Root] = 3

\* C14: in a tree assembled bottom-up with build and extended by inserts on
\* attached nodes, with keys unique among siblings, children_len of every
\* node, the root included, is the number of its descendants (the node
\* itself not counted), whatever the EXPANDED flags are.
C14_ChildrenLenIsDescendantCount ==
    \A n \in Nodes :
        children_len[n] = Cardinality(Descendants(n, children))

\* A tree of three levels below the root whose deepest node came by a
\* propagating insert, with a collapsed and an expanded node on the way.
C14_Witness ==
    /\ last.op = "insert"
    /\ parent[last.node] # Root
    /\ children_len[Root] = 3
    /\ children_len[last.node] = 1
    /\ "EXPANDED" \in flags[last.node]
    /\ "EXPANDED" \notin flags[parent[last.node]]

\* The rows of flatten(root) as the hierarchy is now.
Rows == flatten(Root, children, flags, data)

\* The rows from the start of the iterator's range to the last one.
RowsFromStart == SubSeq(Rows, iter.start + 1, Len(Rows))

IsPrefix(s, t) == Len(s) <= Len(t) /\ s = SubSeq(t, 1, Len(s))

\* C15: for a start row below the row count, the nodes returned by repeated
\* next() on slice(start..) are the rows start, start+1, ... of flatten(root)
\* in order, each once, and None comes only after the last row.
C15_IterationEqualsProjection ==
    (last.op = "next" /\ iter.start < Len(Rows)) =>
        /\ IsPrefix(iter.out, RowsFromStart)
        /\ iter.done => iter.out = RowsFromStart

\* The cursors form a path from n: the first is a child of n, each next one
\* a child of the node before it, each offset the position among siblings.
IsPath(n, stack) ==
    \A i \in 1 .. Len(stack) :
        LET above == IF i = 1 THEN n ELSE stack[i - 1].node
        IN /\ stack[i].offset < Len(children[above])
           /\ children[above][stack[i].offset + 1] = stack[i].node

\* C16: find_by_index(target) on the root, for a target below the number of
\* visible rows, returns a stack of cursors that is a path from the root and
\* ends at the node at row target of flatten(root).
C16_SeekReturnsVisibleRow ==
    (last.op = "slice" /\ iter.start < Len(Rows)) =>
        /\ ~last.panicked
        /\ iter.stack # <<>>
        /\ IsPath(Root, iter.stack)
        /\ iter.stack[Len(iter.stack)].node = Rows[iter.start + 1]

\* C17: an index seek with a target that is not a visible row does not panic
\* and returns no cursor.
C17_SeekOutOfRangeIsAnError ==
    (last.op = "slice" /\ iter.start >= Len(Rows)) =>
        /\ ~last.panicked
        /\ iter.stack = <<>>

\* The subscribers registered before the last operation that were alive when
\* it notified, in registration order.
LiveInOrder == SelectSeq(last.pre.subs, LAMBDA s : s \in subAlive)

Floor(a, b) == CHOOSE q \in 0 .. a : q * b <= a /\ a < (q + 1) * b

Ceil(a, b) == CHOOSE q \in 0 .. a : q * b >= a /\ (q = 0 \/ (q - 1) * b < a)

\* The indices from, from + 1, ... below to, in order.
Indices(from, to) ==
    IF to <= from THEN <<>> ELSE [i \in 1 .. to - from |-> from + i - 1]

ViewOps == {"size", "scroll", "expand"}

\* C19 as claimed: the rows update processes are the indices from
\* firstVisible = floor(scrollOffset / rowHeight) up to, not including,
\* min(totalRows, firstVisible + visibleCount) with visibleCount =
\* ceil(viewportHeight / rowHeight) + 2, and none when firstVisible >=
\* totalRows.
C19_VisibleRangeWithCeil ==
    last.op \in ViewOps =>
        LET firstVisible == Floor(view.offset, item_height)
            visibleCount == Ceil(view.height, item_height) + 2
        IN /\ view.rows = Indices(firstVisible,
                                  Min(Len(flat), firstVisible + visibleCount))
           /\ firstVisible >= Len(flat) => view.rows = <<>>

\* C19 as amended: the same with visibleCount = floor(viewportHeight /
\* rowHeight) + 2; a height of 240 gives visibleCount 12 and an offset of
\* 480 gives firstVisible 20.
C19_VisibleRangeWithFloor ==
    last.op \in ViewOps =>
        LET firstVisible == Floor(view.offset, item_height)
            visibleCount == Floor(view.height, item_height) + 2
        IN /\ view.rows = Indices(firstVisible,
                                  Min(Len(flat), firstVisible + visibleCount))
           /\ firstVisible >= Len(flat) => view.rows = <<>>
           /\ view.count = Len(flat)
           /\ view.height = 240 => visibleCount = 12
           /\ view.offset = 480 => firstVisible = 20

\* An update with a viewport lower than a row over three rows: two rows are
\* processed, the third is not.
C19_Witness ==
    /\ last.op \in ViewOps
    /\ view.height = 1
    /\ view.offset = 0
    /\ Len(flat) = 3
    /\ view.rows = <<0, 1>>

\* The keys of the rows in the range update walks.
VisibleKeys ==
    LET firstVisible == Floor(view.offset, item_height)
        to == Min(Len(flat),
                  firstVisible + Floor(view.height, item_height) + 2)
    IN {KeyOf(flat[i + 1], data) : i \in Range(Indices(firstVisible, to))}

RenderedIds(v) == {r.id : r \in v.rendered}

\* C20: after every update the keys of the materialized map are the keys of
\* the rows in the visible range; a rendering that was in the map before
\* and whose key is no longer in the range is in the pool; no rendering is
\* in the map and in the pool, under two keys, or twice in the pool, and
\* every rendering made is in one of the two.
C20_PoolReconciliation ==
    /\ RenderedKeys(view) = VisibleKeys
    /\ \A r \in last.pre.rendered :
          r.key \notin VisibleKeys => r.id \in Range(view.pool)
    /\ RenderedIds(view) \cap Range(view.pool) = {}
    /\ \A r1, r2 \in view.rendered : r1.id = r2.id => r1 = r2
    /\ NoRowTwice(view.pool)
    /\ RenderedIds(view) \cup Range(view.pool) = 1 .. view.created

\* A scroll that released a rendering to the pool and took another one out
\* of the pool for a row that came into the range.
C20_Witness ==
    /\ last.op = "scroll"
    /\ \E r \in last.pre.rendered :
          /\ r.key \notin VisibleKeys
          /\ r.id \in Range(view.pool)
    /\ \E r \in view.rendered :
          /\ r.id \in Range(last.pre.pool)
          /\ r.key \notin {q.key : q \in last.pre.rendered}

\* The renderings in existence before the last operation.
CreatedBefore == Cardinality(last.pre.rendered) + Len(last.pre.pool)

\* C21: the renderings in existence (materialized plus pooled) are never
\* more than twice the largest visibleCount an update has used, which for a
\* fixed viewport height is twice visibleCount; and an update makes a new
\* rendering only when the pool is empty at that moment, so every rendering
\* that was in the pool before is then in the map.
C21_BoundedAllocation ==
    /\ Cardinality(view.rendered) + Len(view.pool) <= 2 * view.peak
    /\ view.created <= 2 * view.peak
    /\ view.created > CreatedBefore =>
          /\ Range(last.pre.pool) \subseteq RenderedIds(view)
          /\ (CreatedBefore + 1) .. view.created \subseteq RenderedIds(view)

\* A scroll at the height of the render (visibleCount 2) that emptied the
\* pool of one rendering and then made a new one, the third in existence.
C21_Witness ==
    /\ last.op = "scroll"
    /\ view.peak = 2
    /\ Len(last.pre.pool) = 1
    /\ view.created = 3
    /\ CreatedBefore = 2
    /\ Cardinality(view.rendered) = 2

\* C22: no node carries LOADING and EXPANDED together in any state between
\* operations, and after a resolution its node carries EXPANDED and not
\* LOADING.
C22_LoadingExcludesExpanded ==
    /\ \A n \in NodeIds : ~({"LOADING", "EXPANDED"} \subseteq flags[n])
    /\ last.op = "resolve" =>
          /\ "LOADING" \notin flags[last.node]
          /\ "EXPANDED" \in flags[last.node]

\* The results two pending jobs can bring from the current state: na and nb
\* new children with different ids.
PairKids(na, nb) ==
    [a |-> [i \in 1 .. na |-> alloc + i],
     b |-> [i \in 1 .. nb |-> alloc + na + i]]

\* What one order of the two resolutions leaves and the other order too.
SameOutcome(x, y) ==
    /\ x.flags = y.flags
    /\ x.children = y.children
    /\ x.len = y.len
    /\ KeySeq(x.flat, x.data) = KeySeq(y.flat, y.data)

\* C23: when results are pending for two different nodes a and b, resolving
\* a then b and resolving b then a leave the same flags, the same children,
\* the same cached subtree sizes and the same key sequence of the
\* projection; after both, a and b carry EXPANDED and READY and each holds
\* its former children followed by exactly the children of its own result.
C23_ResolutionsCommute ==
    \A ja, jb \in BagToSet(pending) :
       \A na, nb \in 0 .. MaxKids :
          (ja.node # jb.node /\ alloc + na + nb <= MaxNodes) =>
             LET k == PairKids(na, nb)
                 ab == task(jb, k.b, task(ja, k.a, Tree))
                 ba == task(ja, k.a, task(jb, k.b, Tree))
             IN /\ SameOutcome(ab, ba)
                /\ {"EXPANDED", "READY"} \subseteq ab.flags[ja.node]
                /\ {"EXPANDED", "READY"} \subseteq ab.flags[jb.node]
                /\ ab.children[ja.node] = children[ja.node] \o k.a
                /\ ab.children[jb.node] = children[jb.node] \o k.b

\* One of two results pending together for different nodes has arrived with
\* a child, and the other is still awaited.
C23_Witness ==
    /\ last.op = "resolve"
    /\ Len(last.kids) = 1
    /\ \E jb \in BagToSet(pending) :
          /\ jb.node # last.node
          /\ jb.node # Root
          /\ last.node # Root
          /\ "LOADING" \in flags[jb.node]
          /\ alloc < MaxNodes

\* C24: while every pending result is delivered, a node that is LOADING
\* eventually is not, and whenever no result is pending no node carries
\* LOADING.
C24_LoadingEventuallyEnds ==
    /\ [](pending = EmptyBag => \A n \in NodeIds : "LOADING" \notin flags[n])
    /\ \A n \in NodeIds :
          ("LOADING" \in flags[n]) ~> ("LOADING" \notin flags[n])

\* The last pending result has arrived for a node that was LOADING.
C24_Witness ==
    /\ last.op = "resolve"
    /\ "LOADING" \in last.pre.flags[last.node]
    /\ "LOADING" \notin flags[last.node]
    /\ pending = EmptyBag

\* The keys of a sequence of nodes, with repetitions.
KeysOf(s) == [i \in 1 .. Len(s) |-> KeyOf(s[i], data)]

\* Some key occurs twice in a sequence of keys.
HasDuplicate(ks) == \E i, j \in 1 .. Len(ks) : i # j /\ ks[i] = ks[j]

\* C25: an insert where a child's key equals the key of a direct child of
\* the node, or of another child of the same call, leaves the node's child
\* list and every cached subtree size as they were; and every cached size
\* counts the nodes below its node and no other.
C25_DuplicateKeyInsertIsRejected ==
    /\ (/\ last.op = "insert"
        /\ HasDuplicate(KeysOf(last.pre.children[last.node] \o last.kids))) =>
          /\ children[last.node] = last.pre.children[last.node]
          /\ children_len = last.pre.len
    /\ \A n \in Nodes : Attached(n) =>
          children_len[n] = Cardinality(Descendants(n, children))

\* The cursor stands on the child at position offset of its parent.
OnChild(cursor) ==
    /\ cursor.node \in 1 .. alloc
    /\ cursor.offset < Len(children[parent[cursor.node]])
    /\ children[parent[cursor.node]][cursor.offset + 1] = cursor.node

\* C26: for every cursor of the iterator that stands on the child at
\* position offset of its parent, next_sibling is the cursor of the child at
\* position offset + 1 when the parent has one, and nothing only when the
\* node is the last child.
C26_NextSiblingReturnsSibling ==
    \A k \in 1 .. Len(iter.stack) :
       LET cursor == iter.stack[k]
           siblings == children[parent[cursor.node]]
       IN (iter.made /\ OnChild(cursor)) =>
             next_sibling(cursor, parent, children) =
                IF cursor.offset + 1 < Len(siblings)
                THEN Cursor(siblings[cursor.offset + 2], cursor.offset + 1)
                ELSE NoCursor

====
